---- MODULE Spec2Model ----
(***************************************************************************)
(* State-machine model of the SensorPush collection daemon                 *)
(* (src/sensorpushd.py): SensorPushDaemon.run / run_once, the initial      *)
(* connect, the collection cycle, gap detection, window slicing, the       *)
(* per-window fetch with retries and the pool write with per-writer retry  *)
(* and reconnection.  Times are integers counting minutes.                 *)
(*                                                                         *)
(* Spec is the whole program with the sleep between cycles as one step.    *)
(* LiveSpec is the same program, started from one installation, with the   *)
(* worker always taking its next step.  RunSpec and SleepSpec are the run  *)
(* loop with _interruptible_sleep at the grain of its one-second ticks and *)
(* with _collect_cycle as one step that returns or raises: RunSpec for     *)
(* many cycles, SleepSpec for long sleeps.  ApiSpec is the vendor API      *)
(* client alone (authenticate, _ensure_auth, _post) under a clock that     *)
(* advances between calls.  PureSpec applies parse_backlog,                *)
(* build_timelist, process_samples, the sensor_id conversions and the      *)
(* choice of measurement names to arguments drawn from bounded sets.       *)
(***************************************************************************)
EXTENDS Integers, Naturals, Sequences, FiniteSets, TLC

(* ------------------------------ bounds -------------------------------- *)
NumWriters == 2
NumSensors == 2
MaxCycles == 2
T0 == 200000
MaxRunCycles == 52
MaxInterval == 121
MaxApiTime == 58
MaxSpan == 20
MaxBacklogLen == 3
MaxIdLen == 3

(* ------------------------- program constants -------------------------- *)
MAXRETRY == 3
NumConnectAttempts == 5
NumWriteAttempts == 2
ReconnectThreshold == 3
max_consecutive_failures == 50
OverlapMinutes == 30
SafetyMarginMinutes == 60
LookbackMinutes == 43200
TokenMaxAge == 55
WatchdogPeriod == 60
None == -1

Writers == 1..NumWriters
Sensors == 1..NumSensors

(* Elapsed minutes between the starts of two consecutive cycles: the       *)
(* configured interval plus the time the cycle itself took.                *)
Elapsed == {5}

(* ---------------------------- parse_backlog --------------------------- *)
(* A string is a sequence of one-character strings.                        *)
Digits == {"0", "1", "2", "3", "4", "5", "6", "7", "8", "9"}

DigitValue(c) ==
  CASE c = "0" -> 0 [] c = "1" -> 1 [] c = "2" -> 2 [] c = "3" -> 3 [] c = "4" -> 4
    [] c = "5" -> 5 [] c = "6" -> 6 [] c = "7" -> 7 [] c = "8" -> 8 [] c = "9" -> 9

RECURSIVE DigitsValue(_, _)
DigitsValue(s, acc) ==
  IF s = << >> THEN acc ELSE DigitsValue(Tail(s), 10 * acc + DigitValue(Head(s)))

(* int(s) of a string: an optional sign and at least one digit, else       *)
(* ValueError.  (Blanks and underscores, which int() also accepts, are not *)
(* among the characters considered.)                                       *)
PyInt(s) ==
  LET signed == Len(s) >= 1 /\ s[1] \in {"+", "-"}
      body   == IF signed THEN Tail(s) ELSE s
  IN IF Len(body) >= 1 /\ \A i \in DOMAIN body : body[i] \in Digits
       THEN [raised |-> FALSE,
             value  |-> (IF signed /\ s[1] = "-" THEN -1 ELSE 1) * DigitsValue(body, 0)]
       ELSE [raised |-> TRUE, value |-> 0]

(* int(x) of a float given as n / d: truncation towards zero.              *)
Truncate(n, d) == IF n >= 0 THEN n \div d ELSE -((-n) \div d)

Units == {"m", "h", "d", "w", "M", "Y"}

(* count * minutes_per_unit[unit], truncated by int(); "M" is the float    *)
(* 60 * 24 * 30.417 = 43800.48.                                            *)
BacklogMinutes(count, unit) ==
  CASE unit = "m" -> count
    [] unit = "h" -> count * 60
    [] unit = "d" -> count * 60 * 24
    [] unit = "w" -> count * 60 * 24 * 7
    [] unit = "M" -> Truncate(count * 4380048, 100)
    [] unit = "Y" -> count * 60 * 24 * 365

(* int(int(backlogstring[:-1]) * minutes_per_unit[backlogstring[-1]]):     *)
(* int() of the count is evaluated first and raises ValueError, then the   *)
(* unit lookup raises KeyError.                                            *)
parse_backlog(backlogstring) ==
  LET count == PyInt(SubSeq(backlogstring, 1, Len(backlogstring) - 1))
  IN IF count.raised
       THEN [raised |-> "ValueError", minutes |-> None]
       ELSE IF backlogstring[Len(backlogstring)] \notin Units
         THEN [raised |-> "KeyError", minutes |-> None]
         ELSE [raised |-> "none",
               minutes |-> BacklogMinutes(count.value,
                                          backlogstring[Len(backlogstring)])]

(* Configurations: the daemon's poll_backlog and the -b backlog as the     *)
(* strings given and as the minutes they denote (None if malformed),       *)
(* timestep in minutes, interval in seconds.                               *)
Config(pb, b, ts, iv) ==
  [ poll_backlog_str |-> pb, poll_backlog |-> parse_backlog(pb).minutes,
    backlog_str      |-> b,  backlog      |-> parse_backlog(b).minutes,
    timestep |-> ts, interval |-> iv ]

ShortPoll == Config(<< "1", "0", "m" >>, << "1", "d" >>, 43200, 300)
LongPoll  == Config(<< "2", "M" >>, << "1", "d" >>, 100000, 300)
(* An unknown unit in poll_backlog, a count that is no integer in backlog. *)
BadPoll   == Config(<< "1", "0", "x" >>, << "1", ".", "5", "d" >>, 43200, 300)

(* What the backends hold when the process starts (the same for every      *)
(* sensor of a backend): nothing anywhere, a recent point everywhere, a    *)
(* recent point in the first backend only, or a recent point everywhere    *)
(* but a 30-day-old one in the first or in the last backend.               *)
Backends ==
  { [w \in Writers |-> None],
    [w \in Writers |-> T0 - 20],
    [w \in Writers |-> IF w = 1 THEN T0 - 20 ELSE None],
    [w \in Writers |-> IF w = 1 THEN T0 - 43200 ELSE T0 - 20],
    [w \in Writers |-> IF w = NumWriters THEN T0 - 43200 ELSE T0 - 20] }

(* Installations the runs start from.                                      *)
Setups ==
  { << ShortPoll, b >> : b \in Backends }
    \cup { << LongPoll, b >> : b \in { [w \in Writers |-> None],
                                       [w \in Writers |-> T0 - 20] } }
    \cup { << BadPoll, [w \in Writers |-> T0 - 20] >> }

Min2(a, b) == IF a <= b THEN a ELSE b
Max2(a, b) == IF a >= b THEN a ELSE b

VARIABLES
  daemon,                 \* args.daemon
  dryrun,                 \* args.dryrun
  config,                 \* poll_backlog / backlog / timestep
  running,                \* SensorPushDaemon.running
  pc,                     \* position of the single worker
  connected,              \* BaseWriter._connected, per writer
  consecutive_failures,   \* BaseWriter._consecutive_failures, per writer
  run_failures,           \* run(): local consecutive_failures
  cycle,                  \* number of cycles started
  now,                    \* wall clock at the start of the current cycle
  lastTs,                 \* backend content: newest temperature point per writer, sensor
  vendor,                 \* vendor content: shape of each sensor's samples in this cycle
  ci, ca,                 \* _connect_writers: writer index, attempt
  wi, attempt,            \* _safe_write: writer index, attempt
  records,                \* _safe_write: the batch being written
  all_failed,             \* _safe_write: local all_failed
  raised,                 \* whether the last call returned by raising
  ret,                    \* who called _safe_write: "voltage" or "window"
  gw, gs,                 \* _compute_daemon_window: writer index, sensor index
  oldest_ts,              \* _compute_daemon_window: local oldest_ts
  starttime, stoptime,    \* the collection window
  timelist, iteration,    \* build_timelist result and window loop index
  retrycount,             \* _fetch_and_write_window: local retrycount
  token_time,             \* SensorPushAPI._token_time
  sleep_i,                \* _interruptible_sleep: loop index i
  sd,                     \* what was sent through sd_notify, and sleep ticks since
  api,                    \* SensorPushAPI: position in authenticate / _post, and history
  call,                   \* a function applied on its own: name, arguments, result
  pw,                     \* history of the pool write in progress
  cyc,                    \* history of the cycle in progress
  hist                    \* history across cycles

vars == << daemon, dryrun, config, running, pc, connected, consecutive_failures,
           run_failures, cycle, now, lastTs, vendor, ci, ca, wi, attempt, records,
           all_failed, raised, ret, gw, gs, oldest_ts, starttime, stoptime,
           timelist, iteration, retrycount, token_time, sleep_i, sd, api, call,
           pw, cyc, hist >>

(* Groups of variables, for the UNCHANGED clauses below.                   *)
cfgv  == << daemon, dryrun, config >>
connv == << ci, ca >>
poolv == << wi, attempt, records, all_failed, ret >>
gapv  == << gw, gs, oldest_ts >>
winv  == << starttime, stoptime, timelist >>
extv  == << api, call >>
sysv  == << token_time, sleep_i, sd, extv >>

(* ----------------------- history (ghost) records ---------------------- *)
(* pw: what happened in the pool write in progress.                        *)
PwIdle ==
  [ conn0    |-> [w \in Writers |-> FALSE],   \* connected when the write began
    cf0      |-> [w \in Writers |-> 0],       \* failure counter when it began
    reconnOK |-> [w \in Writers |-> FALSE],   \* a reconnect of w succeeded
    calls    |-> [w \in Writers |-> 0],       \* invocations of w.write(records)
    ok       |-> [w \in Writers |-> FALSE],   \* w.write(records) returned normally
    cut      |-> FALSE ]                      \* left early on running = FALSE

(* cyc: what happened in the cycle in progress.                            *)
CycIdle ==
  [ pattern   |-> "other",                    \* throws of write() in this cycle
    qcount    |-> [w \in Writers |-> [s \in Sensors |-> 0]],    \* gap queries sent
    qans      |-> [w \in Writers |-> [s \in Sensors |-> None]], \* and their answers
    skipped   |-> {},                         \* writers left out of gap detection
    returned  |-> {},                         \* <<sensor, T>> of samples the vendor returned
    submitted |-> {},                         \* <<sensor, T>> of records passed to some write()
    noWriter  |-> FALSE,                      \* a pool write began with no writer connected
    missed    |-> {},                         \* starts of windows not fully ingested
    badProc   |-> FALSE,                      \* process_samples raised
    fetches   |-> 0,                          \* get_samples calls for the current window
    waits     |-> 0,                          \* RETRYWAIT sleeps for the current window
    aborted   |-> FALSE,                      \* the window loop found running false
    token0    |-> None,                       \* _token_time when the cycle started
    logins    |-> 0,                          \* OAuth logins sent in this cycle
    voltage   |-> FALSE,                      \* the voltage batch was passed to _safe_write
    reconn    |-> [w \in Writers |-> 0],      \* reconnects tried for w while marked disconnected
    markAt    |-> [w \in Writers |-> None],   \* reconn[w] when w was last marked disconnected
    wfail     |-> {},                         \* <<w, stop>>: w threw twice on that window's batch
    cause     |-> "none" ]                    \* the operation whose error ended the cycle

(* hist: what earlier cycles left behind.                                  *)
HistInit == [ leftOut |-> {}, missed |-> {}, badProc |-> FALSE,
              lastOk  |-> 0,                  \* number of the last cycle that returned
              parseFailed |-> 0,              \* first cycle in which parse_backlog raised
              wfail   |-> {},                 \* cyc.wfail of the previous cycle
              closed  |-> {},                 \* writers whose close() was invoked on the way out
              closeThrew |-> {} ]             \* writers whose close() raised

(* sd: the notifications sent to the service manager and the sleep ticks.  *)
SdInit ==
  [ ready |-> 0,                              \* READY=1 notifications sent
    wd    |-> 0,                              \* last cycle begun with WATCHDOG=1
    since |-> 0,                              \* ticks since WATCHDOG=1 or the sleep's start
    late  |-> 0 ]                             \* ticks of this sleep ended with running false

(* api: where the API client is inside authenticate / _post, and what the  *)
(* call in progress has done so far.                                        *)
ApiIdle ==
  [ pc       |-> "idle",                      \* idle, check, step1, sleep, step2, send, done
    op       |-> "none",                      \* authenticate, or the vendor call of _post
    attempt  |-> 1,                           \* authenticate: loop variable of step 1
    tries1   |-> 0,                           \* posts to /oauth/authorize in this call
    tries2   |-> 0,                           \* posts to /oauth/accesstoken in this call
    sleeps   |-> 0,                           \* time.sleep(20) calls in this call
    failed   |-> 0,                           \* step at which authenticate raised, 0 if none
    stale0   |-> FALSE,                       \* _ensure_auth found no token or an old one
    age0     |-> None,                        \* the token's age at that check, None if no token
    authRan  |-> FALSE,                       \* _ensure_auth called authenticate
    sent     |-> FALSE,                       \* the vendor call was posted
    sentAge  |-> None,                        \* the token's age when it was posted
    raised   |-> FALSE ]                      \* the call returned by raising

(* call: no function is being applied on its own.                          *)
NoCall == [ fn |-> "none", arg |-> None, done |-> FALSE, out |-> None ]

(* Throw pattern of a cycle that began with every writer connected and    *)
(* free of failures: "none" no write() threw yet, "one" the first writer's *)
(* write() threw once, "twice" it threw on exactly two invocations, one    *)
(* right after the other, and no other writer's write() threw; "other"     *)
(* anything else.                                                          *)
PatternStart ==
  IF \A w \in Writers : connected[w] /\ consecutive_failures[w] = 0
    THEN "none" ELSE "other"

PatternAfter(p, w, threw) ==
  IF w = 1
    THEN IF threw
           THEN CASE p = "none" -> "one" [] p = "one" -> "twice" [] OTHER -> "other"
           ELSE CASE p = "one" -> "other" [] OTHER -> p
    ELSE IF threw THEN "other" ELSE p

(* ------------------------------ Init ---------------------------------- *)
(* SensorPushDaemon.__init__, BaseWriter.__init__, SensorPushAPI.__init__: *)
(* what the constructors set whatever the options are.                     *)
Fresh ==
  /\ running = TRUE
  /\ pc = "connect"
  /\ connected = [w \in Writers |-> FALSE]
  /\ consecutive_failures = [w \in Writers |-> 0]
  /\ run_failures = 0
  /\ cycle = 0
  /\ now = T0
  /\ vendor = [s \in Sensors |-> "none"]
  /\ ci = 1 /\ ca = 1
  /\ wi = 1 /\ attempt = 1
  /\ records = << >>
  /\ all_failed = TRUE
  /\ raised = FALSE
  /\ ret = "none"
  /\ gw = 1 /\ gs = 1
  /\ oldest_ts = None
  /\ starttime = 0 /\ stoptime = 0
  /\ timelist = << >> /\ iteration = 1
  /\ retrycount = 0
  /\ token_time = None
  /\ sleep_i = 0
  /\ sd = SdInit
  /\ api = ApiIdle
  /\ pw = PwIdle
  /\ cyc = CycIdle
  /\ hist = HistInit

(* The process starts in daemon or one-shot mode, with or without dryrun,  *)
(* from one of the installations.                                          *)
Init ==
  /\ daemon \in BOOLEAN
  /\ dryrun \in BOOLEAN
  /\ \E su \in Setups :
       /\ config = su[1]
       /\ lastTs = [w \in Writers |-> [s \in Sensors |-> su[2][w]]]
  /\ Fresh
  /\ call = NoCall

(* --------------------------- signal handler --------------------------- *)
(* _handle_signal for SIGTERM / SIGINT: may run between any two steps.     *)
HandleSignal ==
  /\ running
  /\ pc \notin {"stopped", "fatal"}
  /\ running' = FALSE
  /\ UNCHANGED << sysv, daemon, dryrun, config, pc, connected, consecutive_failures,
                  run_failures, cycle, now, lastTs, vendor, ci, ca, wi, attempt, records,
                  all_failed, raised, ret, gw, gs, oldest_ts, starttime, stoptime,
                  timelist, iteration, retrycount, pw, cyc, hist >>

(* --------------------------- _connect_writers ------------------------- *)
ConnectRaisesAny(conn) == \E w \in Writers : ~conn[w]

(* len(failed) == len(self.writers)                                        *)
ConnectRaises(conn) == \A w \in Writers : ~conn[w]

(* One writer.connect() call of the retry loop; a failed call is followed  *)
(* by the interruptible sleep unless it was the last attempt.  (The longer *)
(* of these sleeps send WATCHDOG=1, before READY=1 is sent: sd.wd records  *)
(* the notifications of the cycles only.)                                  *)
ConnectAttempt ==
  /\ pc = "connect"
  /\ ci <= NumWriters
  /\ \E ok \in BOOLEAN :
       IF ok
         THEN /\ connected' = [connected EXCEPT ![ci] = TRUE]
              /\ ci' = ci + 1 /\ ca' = 1
         ELSE /\ connected' = connected
              /\ IF ca < NumConnectAttempts
                   THEN ci' = ci /\ ca' = ca + 1
                   ELSE ci' = ci + 1 /\ ca' = 1
  /\ UNCHANGED << sysv, daemon, dryrun, config, running, pc, consecutive_failures,
                  run_failures, cycle, now, lastTs, vendor, wi, attempt, records,
                  all_failed, raised, ret, gw, gs, oldest_ts, starttime, stoptime,
                  timelist, iteration, retrycount, pw, cyc, hist >>

(* End of _connect_writers: raise ConnectionError or return.               *)
ConnectWritersEnd ==
  /\ pc = "connect"
  /\ ci > NumWriters
  /\ raised' = ConnectRaises(connected)
  /\ pc' = "connect_ret"
  /\ UNCHANGED << sysv, daemon, dryrun, config, running, connected, consecutive_failures,
                  run_failures, cycle, now, lastTs, vendor, ci, ca, wi, attempt, records,
                  all_failed, ret, gw, gs, oldest_ts, starttime, stoptime,
                  timelist, iteration, retrycount, pw, cyc, hist >>

ReadySentAlways(rs) == TRUE

(* run(): sd_notify('READY=1') is the statement after _connect_writers(),  *)
(* reached only when that call returned.                                   *)
ReadySent(rs) == ~rs

(* The caller of _connect_writers: run() goes on to READY=1 and the loop,  *)
(* run_once() to its single cycle; a raise leaves both (uncaught).  The    *)
(* locals of a function that returned are gone: they take their initial    *)
(* values again, here and in the other returns below.                      *)
ConnectReturn ==
  /\ pc = "connect_ret"
  /\ ci' = 1 /\ ca' = 1
  /\ IF raised
       THEN pc' = "fatal" /\ cycle' = cycle /\ cyc' = cyc
       ELSE IF daemon
         THEN pc' = "loop" /\ cycle' = cycle /\ cyc' = cyc
         ELSE /\ pc' = "auth" /\ cycle' = cycle + 1
              /\ cyc' = [CycIdle EXCEPT !.pattern = PatternStart,
                                        !.token0 = token_time]
  /\ sd' = IF daemon /\ ReadySent(raised)
             THEN [sd EXCEPT !.ready = @ + 1]
             ELSE sd
  /\ UNCHANGED << extv, token_time, sleep_i, daemon, dryrun, config, running, connected,
                  consecutive_failures,
                  run_failures, now, lastTs, vendor, wi, attempt, records,
                  all_failed, raised, ret, gw, gs, oldest_ts, starttime, stoptime,
                  timelist, iteration, retrycount, pw, hist >>

(* ------------------------------- run ---------------------------------- *)
LoopContinuesAlways(run) == TRUE

(* while self.running:                                                     *)
LoopContinues(run) == run

(* while self.running: sd_notify('WATCHDOG=1'); self._collect_cycle().     *)
(* At most `cap` cycles are started.                                       *)
LoopHeadWithin(cap) ==
  /\ pc = "loop"
  /\ IF LoopContinues(running)
       THEN /\ cycle < cap
            /\ pc' = "auth"
            /\ cycle' = cycle + 1
            /\ cyc' = [CycIdle EXCEPT !.pattern = PatternStart,
                                      !.token0 = token_time]
            /\ sd' = [sd EXCEPT !.wd = cycle + 1, !.since = 0]
       ELSE pc' = "close" /\ cycle' = cycle /\ cyc' = cyc /\ sd' = sd
  /\ UNCHANGED << extv, token_time, sleep_i, daemon, dryrun, config, running, connected,
                  consecutive_failures,
                  run_failures, now, lastTs, vendor, ci, ca, wi, attempt, records,
                  all_failed, raised, ret, gw, gs, oldest_ts, starttime, stoptime,
                  timelist, iteration, retrycount, pw, hist >>

LoopHead == LoopHeadWithin(MaxCycles)

(* ---------------------------- records --------------------------------- *)
(* build_voltage_records: one "_V" record per listed sensor.               *)
build_voltage_records(querytime) ==
  [ s \in 1..NumSensors |->
      [kind |-> "voltage", sid |-> s, time |-> querytime,
       temperature |-> FALSE, stale |-> FALSE] ]

(* process_samples.  humidity and temperature are locals of the function:  *)
(* a value bound by one sample is still bound when the next sample is      *)
(* processed.  Both branches of the pressure try/except read humidity and  *)
(* temperature for abs_humidity, so a sample is processed without error    *)
(* only if both are bound; reading an unbound local raises.  hb / tb tell  *)
(* whether humidity / temperature are bound before sample i.               *)
RECURSIVE ProcessFrom(_, _, _, _, _)
ProcessFrom(samples, i, hb, tb, acc) ==
  IF i > Len(samples)
    THEN [raised |-> FALSE, records |-> acc]
    ELSE LET x   == samples[i]
             hb2 == hb \/ x.humidity
             tb2 == tb \/ x.temperature
         IN IF ~(hb2 /\ tb2)
              THEN [raised |-> TRUE, records |-> << >>]
              ELSE ProcessFrom(samples, i + 1, hb2, tb2,
                     Append(acc, [kind |-> "sample", sid |-> x.sid,
                                  time |-> x.observed,
                                  temperature |-> x.temperature,
                                  stale |-> ~(x.humidity /\ x.temperature)]))

process_samples(samples) == ProcessFrom(samples, 1, FALSE, FALSE, << >>)

(* The sample whose reading the local `humidity` / `temperature` holds     *)
(* when sample i is processed: the last one up to i that carries the       *)
(* reading (0: the local is unbound).                                      *)
LastBound(samples, i, reading) ==
  LET S == { j \in 1..i : samples[j][reading] }
  IN IF S = {} THEN 0 ELSE CHOOSE j \in S : \A k \in S : k <= j

(* What process_samples yields for sample i of the batch: the record and   *)
(* the sensors whose humidity and temperature its derived fields           *)
(* (abs_humidity, dewpoint, vpd) are computed from, or "raised".           *)
SampleOutcome(samples, i) ==
  LET p == process_samples(samples)
  IN IF p.raised
       THEN [raised |-> TRUE, record |-> None, humidityOf |-> None,
             temperatureOf |-> None]
       ELSE [raised |-> FALSE, record |-> p.records[i],
             humidityOf |-> samples[LastBound(samples, i, "humidity")].sid,
             temperatureOf |-> samples[LastBound(samples, i, "temperature")].sid]

(* ----------------------------- backends ------------------------------- *)
SetMax(S) == CHOOSE x \in S : \A y \in S : y <= x

(* Newest timestamp among the temperature points a batch holds for s.      *)
NewestTemperature(recs, s) ==
  SetMax({None} \cup { recs[i].time : i \in { j \in DOMAIN recs :
            recs[j].kind = "sample" /\ recs[j].sid = s /\ recs[j].temperature } })

(* Content of one backend after write(recs) succeeded (upsert).            *)
BackendAfterWrite(last, recs) ==
  [ s \in Sensors |-> Max2(last[s], NewestTemperature(recs, s)) ]

(* get_last_timestamp: newest temperature point of the sensor within the   *)
(* 30-day lookback, None if there is none.                                 *)
get_last_timestamp(w, s) ==
  IF lastTs[w][s] # None /\ lastTs[w][s] >= now - LookbackMinutes
    THEN lastTs[w][s] ELSE None

(* ---------------------------- _safe_write ----------------------------- *)
(* Entry of _safe_write(recs), called from r ("voltage" or "window").      *)
StartPool(recs, r) ==
  /\ wi' = 1 /\ attempt' = 1
  /\ records' = recs
  /\ all_failed' = TRUE
  /\ ret' = r
  /\ pc' = "pool"
  /\ pw' = [PwIdle EXCEPT !.conn0 = connected,
                          !.cf0 = consecutive_failures]

AfterReconnectFailBreak(i) == NumWriters + 1

(* `continue`: the next writer is visited after a failed reconnect.        *)
AfterReconnectFail(i) == i + 1

FailuresAfterExhaustedKeep(c) == c

(* writer._consecutive_failures += 1 after both attempts failed.           *)
FailuresAfterExhausted(c) == c + 1

MarkDisconnectedNever(c) == FALSE

MarkDisconnectedLate(c) == c > ReconnectThreshold

(* if writer._consecutive_failures >= 3: writer._connected = False         *)
MarkDisconnected(c) == c >= ReconnectThreshold

PoolRaisesAlways(allf, dmn) == allf

(* if all_failed and not self.args.daemon: raise ConnectionError           *)
PoolRaises(allf, dmn) == allf /\ ~dmn

(* `if not self.running: return` at the head of the writer loop.           *)
PoolStopped ==
  /\ pc = "pool" /\ wi <= NumWriters
  /\ ~running
  /\ raised' = FALSE
  /\ pc' = "pool_ret"
  /\ pw' = [pw EXCEPT !.cut = TRUE]
  /\ UNCHANGED << cfgv, sysv, running, connected, consecutive_failures, run_failures,
                  cycle, now, lastTs, vendor, connv, poolv, gapv, winv, iteration,
                  retrycount, cyc, hist >>

(* A disconnected writer: one reconnect() (close, _connected = False,      *)
(* connect); on failure the writer is skipped for this batch.              *)
PoolReconnect ==
  /\ pc = "pool" /\ wi <= NumWriters
  /\ running
  /\ ~connected[wi]
  /\ \E ok \in BOOLEAN :
       IF ok
         THEN /\ connected' = [connected EXCEPT ![wi] = TRUE]
              /\ pw' = [pw EXCEPT !.reconnOK[wi] = TRUE]
              /\ pc' = "attempt" /\ attempt' = 1 /\ wi' = wi
         ELSE /\ connected' = [connected EXCEPT ![wi] = FALSE]
              /\ pw' = pw
              /\ pc' = "pool" /\ attempt' = attempt
              /\ wi' = AfterReconnectFail(wi)
  /\ cyc' = [cyc EXCEPT !.reconn[wi] =
                IF MarkDisconnected(consecutive_failures[wi]) THEN @ + 1 ELSE @]
  /\ UNCHANGED << cfgv, sysv, running, consecutive_failures, run_failures, cycle, now,
                  lastTs, vendor, connv, records, all_failed, ret, raised, gapv, winv,
                  iteration, retrycount, hist >>

(* A connected writer goes straight to its write attempts.                 *)
PoolProceed ==
  /\ pc = "pool" /\ wi <= NumWriters
  /\ running
  /\ connected[wi]
  /\ pc' = "attempt" /\ attempt' = 1
  /\ UNCHANGED << cfgv, sysv, running, connected, consecutive_failures, run_failures,
                  cycle, now, lastTs, vendor, connv, wi, records, all_failed, ret, raised,
                  gapv, winv, iteration, retrycount, pw, cyc, hist >>

(* `if not self.running: return` at the head of the attempt loop.          *)
WriteStopped ==
  /\ pc = "attempt"
  /\ ~running
  /\ raised' = FALSE
  /\ pc' = "pool_ret"
  /\ pw' = [pw EXCEPT !.cut = TRUE]
  /\ UNCHANGED << cfgv, sysv, running, connected, consecutive_failures, run_failures,
                  cycle, now, lastTs, vendor, connv, poolv, gapv, winv, iteration,
                  retrycount, cyc, hist >>

(* One writer.write(records) call.  The concrete writers return at once    *)
(* on an empty batch, so only a non-empty batch can fail.                  *)
WriteCall ==
  /\ pc = "attempt"
  /\ running
  /\ \E ok \in (IF records = << >> THEN {TRUE} ELSE BOOLEAN) :
       /\ pw' = [pw EXCEPT !.calls[wi] = @ + 1, !.ok[wi] = @ \/ ok]
       /\ cyc' = [cyc EXCEPT
                    !.pattern = PatternAfter(@, wi, ~ok),
                    !.submitted = @ \cup { << records[i].sid, records[i].time >> :
                        i \in { j \in DOMAIN records : records[j].kind = "sample" } },
                    !.markAt[wi] =
                        IF /\ ~ok /\ attempt >= NumWriteAttempts
                           /\ MarkDisconnected(FailuresAfterExhausted(consecutive_failures[wi]))
                          THEN cyc.reconn[wi] ELSE @,
                    !.wfail = IF ~ok /\ attempt >= NumWriteAttempts /\ ret = "window"
                                THEN @ \cup { << wi, timelist[iteration][2] >> }
                                ELSE @]
       /\ IF ok
            THEN /\ consecutive_failures' = [consecutive_failures EXCEPT ![wi] = 0]
                 /\ all_failed' = FALSE
                 /\ lastTs' = [lastTs EXCEPT ![wi] = BackendAfterWrite(@, records)]
                 /\ connected' = connected
                 /\ wi' = wi + 1 /\ attempt' = 1 /\ pc' = "pool"
            ELSE /\ lastTs' = lastTs /\ all_failed' = all_failed
                 /\ IF attempt < NumWriteAttempts
                      THEN /\ attempt' = attempt + 1 /\ wi' = wi /\ pc' = "attempt"
                           /\ consecutive_failures' = consecutive_failures
                           /\ connected' = connected
                      ELSE /\ consecutive_failures' = [consecutive_failures EXCEPT
                                  ![wi] = FailuresAfterExhausted(@)]
                           /\ connected' = [connected EXCEPT ![wi] =
                                  IF MarkDisconnected(consecutive_failures'[wi])
                                    THEN FALSE ELSE @]
                           /\ wi' = wi + 1 /\ attempt' = 1 /\ pc' = "pool"
  /\ UNCHANGED << cfgv, sysv, running, run_failures, cycle, now, vendor, connv, records, ret,
                  raised, gapv, winv, iteration, retrycount, hist >>

(* After the last writer: raise if every writer failed in one-shot mode.   *)
PoolEnd ==
  /\ pc = "pool" /\ wi > NumWriters
  /\ raised' = PoolRaises(all_failed, daemon)
  /\ pc' = "pool_ret"
  /\ UNCHANGED << cfgv, sysv, running, connected, consecutive_failures, run_failures,
                  cycle, now, lastTs, vendor, connv, poolv, gapv, winv, iteration,
                  retrycount, pw, cyc, hist >>

(* ------------------------- window computation ------------------------- *)
OldestUpdateNewest(old, ts) ==
  IF ts # None /\ (old = None \/ ts > old) THEN ts ELSE old

(* if ts is not None: if oldest_ts is None or ts < oldest_ts: oldest_ts = ts *)
OldestUpdate(old, ts) ==
  IF ts # None /\ (old = None \/ ts < old) THEN ts ELSE old

WindowStartNoGapFill(oldest, currenttime, pb) == currenttime - pb

WindowStartNoMargin(oldest, currenttime, pb) ==
  IF oldest # None /\ currenttime - oldest > pb THEN oldest ELSE currenttime - pb

(* The tail of _compute_daemon_window: one hour before the oldest point    *)
(* when it is older than poll_backlog, else poll_backlog before now.       *)
WindowStart(oldest, currenttime, pb) ==
  IF oldest # None
    THEN IF currenttime - oldest > pb
           THEN oldest - SafetyMarginMinutes
           ELSE currenttime - pb
    ELSE currenttime - pb

GapEligibleConnected(w) == connected[w]

(* A writer takes part in gap detection unless                             *)
(* `not writer.connected or writer._consecutive_failures > 0`.             *)
GapEligible(w) == connected[w] /\ consecutive_failures[w] = 0

NextStartAtEnd(nextstop) == nextstop

(* starttime = nextstop - datetime.timedelta(minutes=30)                   *)
NextStart(nextstop) == nextstop - OverlapMinutes

(* build_timelist: the end of a window is `timesteps` minutes after the    *)
(* end of the previous one (after the start, for the first window), and    *)
(* each window starts 30 minutes before the end of the previous one.       *)
(* Times are whole minutes, which the window strings render exactly.       *)
RECURSIVE TimelistFrom(_, _, _, _, _)
TimelistFrom(st, newstartt, stop, timesteps, acc) ==
  IF st > stop
    THEN acc
    ELSE LET nextstop == (IF newstartt # None THEN newstartt ELSE st) + timesteps
         IN TimelistFrom(NextStart(nextstop), nextstop, stop, timesteps,
                         Append(acc, << st, nextstop >>))

build_timelist(start, stop, timesteps) ==
  TimelistFrom(start, None, stop, timesteps, << >>)

(* ---------------------------- _collect_cycle -------------------------- *)
(* What the vendor may hold for the listed sensors during one cycle:       *)
(* nothing ("none"), a full sample each ("full"), or full samples except   *)
(* that the first or the last sensor's sample carries no temperature       *)
(* ("noTemp").                                                             *)
VendorShapes ==
  { [s \in Sensors |-> "none"],
    [s \in Sensors |-> "full"],
    [s \in Sensors |-> IF s = 1 THEN "noTemp" ELSE "full"],
    [s \in Sensors |-> IF s = NumSensors THEN "noTemp" ELSE "full"] }

(* self.api.authenticate(), called by _collect_cycle whatever the token's  *)
(* age: the OAuth login is sent; it returns with a new token or raises.    *)
(* (The later calls of the cycle go through _ensure_auth, which finds the  *)
(* token just obtained.)                                                   *)
Authenticate ==
  /\ pc = "auth"
  /\ \E ok \in BOOLEAN :
       IF ok THEN pc' = "sensors" /\ raised' = FALSE /\ token_time' = now
             ELSE pc' = "cycle_ret" /\ raised' = TRUE /\ token_time' = token_time
  /\ cyc' = [cyc EXCEPT !.logins = @ + 1,
                        !.cause = IF raised' THEN "auth" ELSE @]
  /\ UNCHANGED << cfgv, extv, sleep_i, sd, running, connected, consecutive_failures,
                  run_failures,
                  cycle, now, lastTs, vendor, connv, poolv, gapv, winv, iteration,
                  retrycount, pw, hist >>

(* self.api.get_sensors(): returns the listing or raises.  What the       *)
(* vendor holds for each listed sensor during this cycle is fixed here.    *)
GetSensors ==
  /\ pc = "sensors"
  /\ \/ /\ pc' = "voltage" /\ raised' = FALSE
        /\ vendor' \in VendorShapes
        /\ cyc' = cyc
     \/ /\ pc' = "cycle_ret" /\ raised' = TRUE
        /\ vendor' = vendor
        /\ cyc' = [cyc EXCEPT !.cause = "sensors"]
  /\ UNCHANGED << cfgv, sysv, running, connected, consecutive_failures, run_failures,
                  cycle, now, lastTs, connv, poolv, gapv, winv, iteration,
                  retrycount, pw, hist >>

VoltageLoggedAlways(dr) == TRUE

(* if self.args.dryrun: self._log_dryrun(voltage_records)                  *)
VoltageLogged(dr) == dr

(* Voltage/RSSI batch.  build_voltage_records raises when a listed sensor  *)
(* has no "id" or "name", or an "id" that float() rejects; the batch is    *)
(* logged under dryrun, else written to the pool.                          *)
WriteVoltage ==
  /\ pc = "voltage"
  /\ \/ /\ pc' = "cycle_ret" /\ raised' = TRUE
        /\ cyc' = [cyc EXCEPT !.cause = "records"]
        /\ UNCHANGED << poolv, pw >>
     \/ /\ raised' = raised
        /\ IF VoltageLogged(dryrun)
             THEN /\ pc' = "window"
                  /\ UNCHANGED << poolv, pw, cyc >>
             ELSE /\ StartPool(build_voltage_records(now), "voltage")
                  /\ cyc' = [cyc EXCEPT !.voltage = TRUE,
                               !.noWriter = @ \/ (\A w \in Writers : ~connected[w])]
  /\ UNCHANGED << cfgv, sysv, running, connected, consecutive_failures, run_failures,
                  cycle, now, lastTs, vendor, connv, gapv, winv, iteration,
                  retrycount, hist >>

RetriesExhaustedLate(rc) == rc > MAXRETRY

(* if retrycount >= MAXRETRY                                               *)
RetriesExhausted(rc) == rc >= MAXRETRY

(* The except clause of _fetch_and_write_window: count the failure; after  *)
(* MAXRETRY failures skip the window (daemon) or re-raise (one-shot), else *)
(* sleep RETRYWAIT (time.sleep, not interruptible) and try the window      *)
(* again.                                                                  *)
WindowExcept(cycNext) ==
  /\ retrycount' = retrycount + 1
  /\ IF RetriesExhausted(retrycount + 1)
       THEN IF daemon
              THEN /\ pc' = "iter" /\ iteration' = iteration + 1 /\ raised' = FALSE
                   /\ cyc' = [cycNext EXCEPT !.missed = @ \cup {timelist[iteration][1]}]
              ELSE /\ pc' = "cycle_ret" /\ iteration' = iteration /\ raised' = TRUE
                   /\ cyc' = [cycNext EXCEPT !.missed = @ \cup {timelist[iteration][1]}]
       ELSE /\ pc' = "fetch" /\ iteration' = iteration /\ raised' = FALSE
            /\ cyc' = [cycNext EXCEPT !.waits = @ + 1]

(* Return of _safe_write to its caller.                                    *)
PoolReturn ==
  /\ pc = "pool_ret"
  /\ pw' = PwIdle
  /\ wi' = 1 /\ attempt' = 1 /\ records' = << >> /\ all_failed' = TRUE
  /\ ret' = "none"
  /\ IF ret = "voltage"
       THEN /\ IF raised THEN pc' = "cycle_ret" ELSE pc' = "window"
            /\ UNCHANGED << raised, iteration, retrycount, cyc >>
       ELSE IF raised
              THEN WindowExcept(cyc)
              ELSE /\ pc' = "iter" /\ iteration' = iteration + 1
                   /\ UNCHANGED << raised, retrycount, cyc >>
  /\ UNCHANGED << cfgv, sysv, running, connected, consecutive_failures, run_failures,
                  cycle, now, lastTs, vendor, connv, gapv, winv, hist >>

(* parse_backlog raised inside the window computation: the exception       *)
(* leaves _collect_cycle.                                                  *)
WindowRaises ==
  /\ pc' = "cycle_ret" /\ raised' = TRUE
  /\ cyc' = [cyc EXCEPT !.cause = "window"]
  /\ hist' = [hist EXCEPT !.parseFailed = IF @ = 0 THEN cycle ELSE @]

(* _compute_oneshot_window with the backlog option:                        *)
(* backlog = parse_backlog(self.args.backlog).                             *)
OneshotWindow ==
  /\ pc = "window"
  /\ ~daemon
  /\ LET backlog == parse_backlog(config.backlog_str)
     IN IF backlog.raised # "none"
          THEN /\ WindowRaises
               /\ UNCHANGED << starttime, stoptime >>
          ELSE /\ starttime' = now - backlog.minutes
               /\ stoptime' = now
               /\ pc' = "timelist"
               /\ UNCHANGED << raised, cyc, hist >>
  /\ UNCHANGED << cfgv, sysv, running, connected, consecutive_failures, run_failures,
                  cycle, now, lastTs, vendor, connv, poolv, gapv, timelist,
                  iteration, retrycount, pw >>

(* Entry of _compute_daemon_window:                                        *)
(* poll_backlog_min = parse_backlog(poll_backlog_str), then the loops.     *)
GapStart ==
  /\ pc = "window"
  /\ daemon
  /\ gw' = 1 /\ gs' = 1 /\ oldest_ts' = None
  /\ IF parse_backlog(config.poll_backlog_str).raised # "none"
       THEN WindowRaises
       ELSE pc' = "gap" /\ UNCHANGED << raised, cyc, hist >>
  /\ UNCHANGED << cfgv, sysv, running, connected, consecutive_failures, run_failures,
                  cycle, now, lastTs, vendor, connv, poolv, winv, iteration,
                  retrycount, pw >>

(* `continue` for a writer that is disconnected or has failed writes.      *)
GapSkipWriter ==
  /\ pc = "gap" /\ gw <= NumWriters
  /\ ~GapEligible(gw)
  /\ gw' = gw + 1 /\ gs' = 1
  /\ cyc' = [cyc EXCEPT !.skipped = @ \cup {gw}]
  /\ UNCHANGED << cfgv, sysv, running, pc, connected, consecutive_failures, run_failures,
                  cycle, now, lastTs, vendor, connv, poolv, oldest_ts, winv, raised,
                  iteration, retrycount, pw, hist >>

(* `if not self.running: break` in the sensor loop.                        *)
GapBreak ==
  /\ pc = "gap" /\ gw <= NumWriters
  /\ GapEligible(gw)
  /\ ~running
  /\ gw' = gw + 1 /\ gs' = 1
  /\ UNCHANGED << cfgv, sysv, running, pc, connected, consecutive_failures, run_failures,
                  cycle, now, lastTs, vendor, connv, poolv, oldest_ts, winv, raised,
                  iteration, retrycount, pw, cyc, hist >>

(* writer.get_last_timestamp(measurement, sensor_id) for one sensor; the   *)
(* writers turn a failed query into None.                                  *)
GapQuery ==
  /\ pc = "gap" /\ gw <= NumWriters
  /\ GapEligible(gw)
  /\ running
  /\ \E failed \in BOOLEAN :
       LET ts == IF failed THEN None ELSE get_last_timestamp(gw, gs)
       IN /\ oldest_ts' = OldestUpdate(oldest_ts, ts)
          /\ cyc' = [cyc EXCEPT !.qcount[gw][gs] = @ + 1, !.qans[gw][gs] = ts]
  /\ IF gs = NumSensors THEN gw' = gw + 1 /\ gs' = 1
                        ELSE gw' = gw /\ gs' = gs + 1
  /\ UNCHANGED << cfgv, sysv, running, pc, connected, consecutive_failures, run_failures,
                  cycle, now, lastTs, vendor, connv, poolv, winv, raised, iteration,
                  retrycount, pw, hist >>

(* End of _compute_daemon_window: return starttime, currenttime.           *)
GapDone ==
  /\ pc = "gap" /\ gw > NumWriters
  /\ starttime' = WindowStart(oldest_ts, now,
                              parse_backlog(config.poll_backlog_str).minutes)
  /\ stoptime' = now
  /\ gw' = 1 /\ gs' = 1 /\ oldest_ts' = None
  /\ pc' = "timelist"
  /\ UNCHANGED << cfgv, sysv, running, connected, consecutive_failures, run_failures,
                  cycle, now, lastTs, vendor, connv, poolv, timelist, raised,
                  iteration, retrycount, pw, cyc, hist >>

(* timelist = build_timelist(starttime, stoptime, self.args.timestep)      *)
BuildTimelist ==
  /\ pc = "timelist"
  /\ timelist' = build_timelist(starttime, stoptime, config.timestep)
  /\ iteration' = 1
  /\ pc' = "iter"
  /\ cyc' = [cyc EXCEPT !.qcount = CycIdle.qcount, !.qans = CycIdle.qans,
                        !.skipped = {}]
  /\ hist' = [hist EXCEPT !.leftOut = @ \cup cyc.skipped, !.missed = {}]
  /\ UNCHANGED << cfgv, sysv, running, connected, consecutive_failures, run_failures,
                  cycle, now, lastTs, vendor, connv, poolv, gapv, starttime, stoptime,
                  raised, retrycount, pw >>

WindowLoopEndsAtLast(i, n, run) == i > n

(* for i, window in enumerate(timelist, 1): if not self.running: break     *)
WindowLoopEnds(i, n, run) == i > n \/ ~run

(* Head of the window loop: the cycle ends after the last window, or at    *)
(* once when running is found false.                                       *)
IterHead ==
  /\ pc = "iter"
  /\ IF WindowLoopEnds(iteration, Len(timelist), running)
       THEN /\ pc' = "cycle_ret" /\ raised' = FALSE /\ retrycount' = retrycount
            /\ cyc' = [cyc EXCEPT !.aborted = (iteration <= Len(timelist) /\ ~running)]
       ELSE /\ pc' = "fetch" /\ raised' = raised /\ retrycount' = 0
            /\ cyc' = [cyc EXCEPT !.fetches = 0, !.waits = 0,
                                  !.aborted = @ \/ ~running]
  /\ UNCHANGED << cfgv, sysv, running, connected, consecutive_failures, run_failures,
                  cycle, now, lastTs, vendor, connv, poolv, gapv, winv, iteration,
                  pw, hist >>

(* ----------------------- _fetch_and_write_window ---------------------- *)
(* What the vendor answers for a window: per sensor no sample, a full      *)
(* sample, or a sample without temperature; all observed at the newest     *)
(* instant the window covers.  (The truncated flag of the answer is only   *)
(* logged.)                                                                *)
SampleTime(window) == Min2(window[2], now)

Response(k, t) ==
  SelectSeq([ s \in 1..NumSensors |->
                [sid |-> s, observed |-> t, present |-> k[s] # "none",
                 humidity |-> k[s] \in {"full", "noTemp"},
                 temperature |-> k[s] \in {"full", "noHum"}] ],
            LAMBDA x : x.present)

SamplesLoggedNever(dr) == FALSE

(* if self.args.dryrun: self._log_dryrun(records)                          *)
SamplesLogged(dr) == dr

(* One pass of the retry loop: get_samples, process_samples, then the      *)
(* pool write (or the dryrun log).  A failed request or an exception of    *)
(* process_samples lands in the except clause.                             *)
GetSamples ==
  /\ pc = "fetch"
  /\ \/ /\ WindowExcept([cyc EXCEPT !.fetches = @ + 1])
        /\ UNCHANGED << poolv, pw >>
     \/ LET window  == timelist[iteration]
              samples == Response(vendor, SampleTime(window))
              p       == process_samples(samples)
              cyc1    == [cyc EXCEPT
                            !.fetches = @ + 1,
                            !.returned = @ \cup { << samples[i].sid, samples[i].observed >> :
                                                  i \in DOMAIN samples },
                            !.badProc = @ \/ p.raised]
          IN IF p.raised
               THEN /\ WindowExcept(cyc1)
                    /\ UNCHANGED << poolv, pw >>
               ELSE IF SamplesLogged(dryrun)
                 THEN /\ pc' = "iter" /\ iteration' = iteration + 1
                      /\ cyc' = cyc1
                      /\ UNCHANGED << poolv, pw, raised, retrycount >>
                 ELSE /\ StartPool(p.records, "window")
                      /\ cyc' = [cyc1 EXCEPT !.noWriter =
                                   @ \/ (\A w \in Writers : ~connected[w])]
                      /\ UNCHANGED << iteration, raised, retrycount >>
  /\ UNCHANGED << cfgv, sysv, running, connected, consecutive_failures, run_failures,
                  cycle, now, lastTs, vendor, connv, gapv, winv, hist >>

(* ------------------------ after _collect_cycle ------------------------ *)
TooManyFailuresLate(n) == n > max_consecutive_failures

(* if consecutive_failures >= max_consecutive_failures: break              *)
TooManyFailures(n) == n >= max_consecutive_failures

ResetFailuresKeep(n) == n

(* consecutive_failures = 0 after _collect_cycle() returned.               *)
ResetFailures(n) == 0

CountFailureNot(n) == n

(* consecutive_failures += 1 in the except clause of run().                *)
CountFailure(n) == n + 1

(* run(): reset or count the failure, leave the loop at 50 failures, else  *)
(* sleep.  run_once(): the finally clause closes the writers.              *)
CycleReturn ==
  /\ pc = "cycle_ret"
  /\ IF daemon
       THEN IF raised
              THEN /\ run_failures' = CountFailure(run_failures)
                   /\ pc' = IF TooManyFailures(run_failures')
                              THEN "close" ELSE "sleep"
              ELSE /\ run_failures' = ResetFailures(run_failures)
                   /\ pc' = "sleep"
       ELSE /\ run_failures' = run_failures
            /\ pc' = "close"
  /\ raised' = (raised /\ ~daemon)
  /\ vendor' = [s \in Sensors |-> "none"]
  /\ starttime' = 0 /\ stoptime' = 0 /\ timelist' = << >>
  /\ iteration' = 1 /\ retrycount' = 0
  /\ hist' = [hist EXCEPT !.missed = cyc.missed, !.badProc = cyc.badProc,
                          !.wfail = cyc.wfail,
                          !.lastOk = IF raised THEN @ ELSE cycle]
  /\ cyc' = CycIdle
  /\ UNCHANGED << cfgv, sysv, running, connected, consecutive_failures, cycle, now,
                  lastTs, connv, poolv, gapv, pw >>

(* self._interruptible_sleep(interval): returns at once when running is    *)
(* false, else the clock has advanced when the next cycle starts.          *)
Sleep ==
  /\ pc = "sleep"
  /\ IF running
       THEN \E e \in Elapsed : now' = now + e
       ELSE now' = now
  /\ pc' = "loop"
  /\ UNCHANGED << cfgv, sysv, running, connected, consecutive_failures, run_failures,
                  cycle, lastTs, vendor, connv, poolv, gapv, winv, raised, iteration,
                  retrycount, pw, cyc, hist >>

CloseInvokedUntilRaise(threw) ==
  { w \in Writers : \A v \in threw : w <= v }

(* for w in self.writers: try: w.close() except Exception: the writers on  *)
(* which close() is invoked when the close() of those in threw raises.     *)
CloseInvoked(threw) == Writers

(* for w in self.writers: w.close(), each in its own try/except: a close() *)
(* that raises leaves the writer's _connected as it was.                   *)
CloseWriters ==
  /\ pc = "close"
  /\ \E threw \in SUBSET Writers :
       LET closed == CloseInvoked(threw)
       IN /\ connected' = [w \in Writers |->
                             IF w \in closed \ threw THEN FALSE ELSE connected[w]]
          /\ hist' = [hist EXCEPT !.closed = closed, !.closeThrew = threw \cap closed]
  /\ pc' = IF ~daemon /\ raised THEN "fatal" ELSE "stopped"
  /\ UNCHANGED << cfgv, sysv, running, consecutive_failures, run_failures, cycle, now,
                  lastTs, vendor, connv, poolv, gapv, winv, raised, iteration,
                  retrycount, pw, cyc >>

(* ------------------- the run loop at the grain of ticks --------------- *)
(* self._collect_cycle() as run() sees it: it returns or it raises.  (Its  *)
(* effects on the writers, the backends and the token, none of which run() *)
(* reads, are those of the cycle's actions above.)                         *)
CollectCycle ==
  /\ pc = "auth"
  /\ \E ok \in BOOLEAN : raised' = ~ok
  /\ pc' = "cycle_ret"
  /\ UNCHANGED << cfgv, sysv, running, connected, consecutive_failures, run_failures,
                  cycle, now, lastTs, vendor, connv, poolv, gapv, winv, iteration,
                  retrycount, pw, cyc, hist >>

SleepInterruptedNever(run) == FALSE

(* if not self.running: return                                             *)
SleepInterrupted(run) == ~run

WatchdogDueNever(i) == FALSE

(* if i > 0 and i % 60 == 0: sd_notify('WATCHDOG=1')                       *)
WatchdogDue(i) == i > 0 /\ i % WatchdogPeriod = 0

(* One pass through the head of `for i in range(seconds)`: the loop is     *)
(* over, or running is false and the function returns, or WATCHDOG=1 is    *)
(* sent when due and time.sleep(1) is entered.                             *)
SleepCheck ==
  /\ pc = "sleep"
  /\ IF sleep_i >= config.interval \/ SleepInterrupted(running)
       THEN /\ pc' = "loop" /\ sleep_i' = 0 /\ sd' = sd
            /\ IF sleep_i >= config.interval
                 THEN \E e \in Elapsed : now' = now + e
                 ELSE now' = now
       ELSE /\ pc' = "tick" /\ sleep_i' = sleep_i /\ now' = now
            /\ sd' = IF WatchdogDue(sleep_i) THEN [sd EXCEPT !.since = 0] ELSE sd
  /\ UNCHANGED << cfgv, extv, token_time, running, connected, consecutive_failures,
                  run_failures, cycle, lastTs, vendor, connv, poolv, gapv, winv,
                  raised, iteration, retrycount, pw, cyc, hist >>

(* time.sleep(1) returns (a signal handler that ran meanwhile does not cut *)
(* it short) and the loop index advances.                                  *)
SleepTick ==
  /\ pc = "tick"
  /\ pc' = "sleep"
  /\ sleep_i' = sleep_i + 1
  /\ sd' = [sd EXCEPT !.since = @ + 1, !.late = @ + (IF running THEN 0 ELSE 1)]
  /\ UNCHANGED << cfgv, extv, token_time, running, connected, consecutive_failures,
                  run_failures, cycle, now, lastTs, vendor, connv, poolv, gapv, winv,
                  raised, iteration, retrycount, pw, cyc, hist >>

RunLoopHead == LoopHeadWithin(MaxRunCycles)

(* main(): `return 0` after run() / run_once() returned, sys.exit(main()); *)
(* an exception that leaves main ends the process with status 1.           *)
ExitStatus ==
  IF pc = "stopped" THEN 0 ELSE IF pc = "fatal" THEN 1 ELSE None

(* The steps of the single worker.                                         *)
Worker ==
  \/ ConnectAttempt
  \/ ConnectWritersEnd
  \/ ConnectReturn
  \/ LoopHead
  \/ Authenticate
  \/ GetSensors
  \/ WriteVoltage
  \/ PoolStopped
  \/ PoolReconnect
  \/ PoolProceed
  \/ WriteStopped
  \/ WriteCall
  \/ PoolEnd
  \/ PoolReturn
  \/ OneshotWindow
  \/ GapStart
  \/ GapSkipWriter
  \/ GapBreak
  \/ GapQuery
  \/ GapDone
  \/ BuildTimelist
  \/ IterHead
  \/ GetSamples
  \/ CycleReturn
  \/ Sleep
  \/ CloseWriters

Next ==
  \/ HandleSignal
  \/ Worker

Spec == Init /\ [][Next]_vars

(* Every call the worker makes returns: the worker keeps taking steps.     *)
(* Started from one installation (a backend holding a 30-day-old point, so *)
(* that daemon cycles have two windows).                                   *)
LiveInit ==
  /\ daemon \in BOOLEAN
  /\ dryrun \in BOOLEAN
  /\ config = ShortPoll
  /\ lastTs = [w \in Writers |-> [s \in Sensors |->
                  IF w = 1 THEN T0 - LookbackMinutes ELSE T0 - 20]]
  /\ Fresh
  /\ call = NoCall

LiveSpec == LiveInit /\ [][Next]_vars /\ WF_vars(Worker)

(* The run loop alone, for many cycles: a short interval.                  *)
RunInit ==
  /\ daemon \in BOOLEAN
  /\ dryrun = FALSE
  /\ config = [ShortPoll EXCEPT !.interval = 1]
  /\ lastTs = [w \in Writers |-> [s \in Sensors |-> None]]
  /\ Fresh
  /\ call = NoCall

RunNext ==
  \/ HandleSignal
  \/ ConnectAttempt
  \/ ConnectWritersEnd
  \/ ConnectReturn
  \/ RunLoopHead
  \/ CollectCycle
  \/ CycleReturn
  \/ SleepCheck
  \/ SleepTick
  \/ CloseWriters

RunSpec == RunInit /\ [][RunNext]_vars

(* The run loop alone, for few cycles: intervals up to MaxInterval.        *)
SleepIntervals == {1, WatchdogPeriod, WatchdogPeriod + 1, MaxInterval}

SleepInit ==
  /\ daemon \in BOOLEAN
  /\ dryrun = FALSE
  /\ \E n \in SleepIntervals : config = [ShortPoll EXCEPT !.interval = n]
  /\ lastTs = [w \in Writers |-> [s \in Sensors |-> None]]
  /\ Fresh
  /\ call = NoCall

SleepNext ==
  \/ HandleSignal
  \/ ConnectAttempt
  \/ ConnectWritersEnd
  \/ ConnectReturn
  \/ LoopHead
  \/ CollectCycle
  \/ CycleReturn
  \/ SleepCheck
  \/ SleepTick
  \/ CloseWriters

SleepSpec == SleepInit /\ [][SleepNext]_vars

(* Everything but the clock, the token and the records api and call.          *)
restv == << cfgv, running, pc, connected, consecutive_failures, run_failures, cycle,
            lastTs, vendor, connv, poolv, gapv, winv, raised, iteration, retrycount,
            sleep_i, sd, pw, cyc, hist >>

(* --------------------------- sensor_id tags --------------------------- *)
RECURSIVE StripLeadingZeros(_)
StripLeadingZeros(s) ==
  IF s # << >> /\ Head(s) = "0" THEN StripLeadingZeros(Tail(s)) ELSE s

RECURSIVE StripTrailingZeros(_)
StripTrailingZeros(s) ==
  IF s # << >> /\ s[Len(s)] = "0"
    THEN StripTrailingZeros(SubSeq(s, 1, Len(s) - 1)) ELSE s

(* float(s) of a string of digits with at most one point: the number, as   *)
(* its whole and fractional digits without leading and trailing zeros;     *)
(* ValueError for any other string.  (Exact for up to 15 significant       *)
(* digits, which is all the strings considered have; a longer identifier   *)
(* is rounded to the nearest binary64 value.)                              *)
PyFloat(s) ==
  LET dots == { i \in DOMAIN s : s[i] = "." }
      d    == IF dots = {} THEN Len(s) + 1 ELSE CHOOSE i \in dots : TRUE
  IN IF \/ \E i \in DOMAIN s : s[i] \notin Digits \cup {"."}
        \/ Cardinality(dots) > 1
        \/ Len(s) - Cardinality(dots) = 0
       THEN [raised |-> TRUE, whole |-> << >>, frac |-> << >>]
       ELSE [raised |-> FALSE,
             whole  |-> StripLeadingZeros(SubSeq(s, 1, d - 1)),
             frac   |-> StripTrailingZeros(SubSeq(s, d + 1, Len(s)))]

(* str(x) of a float from 0.0001 up to 1e16: the digits, a point and at    *)
(* least one digit on each side of it.                                     *)
PyStr(x) ==
  (IF x.whole = << >> THEN << "0" >> ELSE x.whole) \o << "." >>
     \o (IF x.frac = << >> THEN << "0" >> ELSE x.frac)

(* 'sensor_id': float(key) in process_samples, float(sensors[sid]["id"])   *)
(* in build_voltage_records.                                               *)
SensorIdTag(key) == PyFloat(key)

(* The writers render a tag value with str(): VMWriter._to_json_lines      *)
(* itself, the InfluxDB clients when they build the line protocol.         *)
WrittenTag(tag) == PyStr(tag)

(* sid_tag = str(float(sid)) in _compute_daemon_window: the value the      *)
(* writers' last-timestamp queries compare the stored tag with.            *)
GapQueryTag(sid) == PyStr(PyFloat(sid))

(* --------------------- functions applied on their own ----------------- *)
(* Strings of at most n characters drawn from chars.                       *)
StringsUpTo(chars, n) == UNION { [1..k -> chars] : k \in 0..n }

TimeSteps == {1, 29, 30, 31, 60, 720}

TimelistCall(a, n, ts) ==
  [fn |-> "build_timelist", done |-> FALSE, out |-> None,
   arg |-> [starttime |-> a, stoptime |-> a + n, timesteps |-> ts]]

(* build_timelist on intervals of up to MaxSpan minutes, empty intervals   *)
(* included, with every step, and on one day with the steps of an hour     *)
(* and more.                                                               *)
TimelistCalls ==
  { TimelistCall(a, n, ts) : a \in {0, T0}, n \in -1..MaxSpan, ts \in TimeSteps }
    \cup { TimelistCall(a, 60 * 24, ts) :
             a \in {0, T0}, ts \in { x \in TimeSteps : x >= 60 } }

BacklogChars == {"0", "1", "-", ".", "m", "M", "x"}

BacklogCalls ==
  { [fn |-> "parse_backlog", done |-> FALSE, out |-> None, arg |-> b] :
       b \in StringsUpTo(BacklogChars, MaxBacklogLen) }

SampleKinds == {"none", "full", "noTemp", "noHum", "bare"}

SampleCalls ==
  { [fn |-> "process_samples", done |-> FALSE, out |-> None,
     arg |-> Response(k, T0)] : k \in [Sensors -> SampleKinds] }

IdChars == {"0", "7", ".", "x"}

SensorIdCalls ==
  { [fn |-> "sensor_id", done |-> FALSE, out |-> None, arg |-> i] :
       i \in StringsUpTo(IdChars, MaxIdLen) }

ApplyBuildTimelist ==
  /\ call.fn = "build_timelist" /\ ~call.done
  /\ call' = [call EXCEPT !.done = TRUE,
                 !.out = build_timelist(call.arg.starttime, call.arg.stoptime,
                                        call.arg.timesteps)]
  /\ UNCHANGED << now, token_time, api, restv >>

ApplyParseBacklog ==
  /\ call.fn = "parse_backlog" /\ ~call.done
  /\ call' = [call EXCEPT !.done = TRUE, !.out = parse_backlog(call.arg)]
  /\ UNCHANGED << now, token_time, api, restv >>

ApplyProcessSamples ==
  /\ call.fn = "process_samples" /\ ~call.done
  /\ call' = [call EXCEPT !.done = TRUE, !.out = process_samples(call.arg)]
  /\ UNCHANGED << now, token_time, api, restv >>

(* The tag a record of the sensor gets, as a writer stores it, and the     *)
(* value the next gap query for the sensor filters on.                     *)
ApplySensorId ==
  /\ call.fn = "sensor_id" /\ ~call.done
  /\ call' = [call EXCEPT !.done = TRUE,
                 !.out = IF SensorIdTag(call.arg).raised
                           THEN [raised |-> TRUE, tag |-> << >>, query |-> << >>]
                           ELSE [raised |-> FALSE,
                                 tag    |-> WrittenTag(SensorIdTag(call.arg)),
                                 query  |-> GapQueryTag(call.arg)]]
  /\ UNCHANGED << now, token_time, api, restv >>

(* --------------------------- measurement names ------------------------ *)
(* MEASUREMENT_NAME of each backend's configuration section.               *)
MeasurementNames == {"SensorPush", "Climate"}

MeasurementCalls ==
  { [fn |-> "measurement_name", done |-> FALSE, out |-> None, arg |-> names] :
      names \in [Writers -> MeasurementNames] }

(* _get_measurement_name: self.writers[0].measurement_name (the pool is    *)
(* never empty).                                                           *)
get_measurement_name(names) == names[1]

(* The measurement a record of the cycle is stored under by writer w:      *)
(* process_samples puts measurement_name into record['measurement'] and    *)
(* every writer stores the record under that name.                         *)
RecordMeasurement(names, w) == get_measurement_name(names)

(* The measurement gap detection asks writer w about:                      *)
(* writer.get_last_timestamp(writer.measurement_name, sensor_id=sid_tag).  *)
GapQueryMeasurement(names, w) == names[w]

(* The names one cycle writes under and queries, per writer.               *)
ApplyMeasurementName ==
  /\ call.fn = "measurement_name" /\ ~call.done
  /\ call' = [call EXCEPT !.done = TRUE,
                 !.out = [written |-> [w \in Writers |->
                                         RecordMeasurement(call.arg, w)],
                          queried |-> [w \in Writers |->
                                         GapQueryMeasurement(call.arg, w)]]]
  /\ UNCHANGED << now, token_time, api, restv >>

PureInit ==
  /\ daemon = FALSE
  /\ dryrun = FALSE
  /\ config = ShortPoll
  /\ lastTs = [w \in Writers |-> [s \in Sensors |-> None]]
  /\ Fresh
  /\ call \in TimelistCalls \cup BacklogCalls \cup SampleCalls \cup SensorIdCalls
               \cup MeasurementCalls

PureNext ==
  \/ ApplyBuildTimelist
  \/ ApplyParseBacklog
  \/ ApplyProcessSamples
  \/ ApplySensorId
  \/ ApplyMeasurementName

PureSpec == PureInit /\ [][PureNext]_vars

(* --------------------------- the API client --------------------------- *)
(* get_sensors, get_gateways, get_reports, get_samples: each is one _post. *)
PostOps == {"sensors", "gateways", "reports", "samples"}

(* What a POST to the vendor comes back with: status 200, another status,  *)
(* or requests.exceptions.ConnectionError.                                 *)
PostOutcomes == {"200", "status", "ConnectionError"}

TokenStaleMissingOnly(tt, t) == tt = None

(* self._token_time is None or time.time() - self._token_time > 3300       *)
TokenStale(tt, t) == tt = None \/ t - tt > TokenMaxAge

(* A caller enters authenticate() or one of the _post wrappers.            *)
ApiCall ==
  /\ api.pc = "idle"
  /\ \E op \in {"authenticate"} \cup PostOps :
       api' = [ApiIdle EXCEPT !.op = op,
                              !.pc = IF op = "authenticate" THEN "step1" ELSE "check"]
  /\ UNCHANGED << now, token_time, call, restv >>

(* _post: self._ensure_auth(), which calls authenticate() when the token   *)
(* is missing or older than 55 minutes.                                    *)
EnsureAuth ==
  /\ api.pc = "check"
  /\ LET stale == TokenStale(token_time, now)
     IN api' = [api EXCEPT !.stale0  = stale,
                           !.age0    = IF token_time = None THEN None ELSE now - token_time,
                           !.authRan = stale,
                           !.pc      = IF stale THEN "step1" ELSE "send"]
  /\ UNCHANGED << now, token_time, call, restv >>

(* authenticate, step 1: one pass of `for attempt in range(1, MAXRETRY+1)`. *)
(* Status 200 leaves the loop; another status or a ConnectionError raises   *)
(* when attempt >= MAXRETRY and is followed by time.sleep(20) otherwise.    *)
AuthorizeAttempt ==
  /\ api.pc = "step1"
  /\ \E r \in PostOutcomes :
       IF r = "200"
         THEN api' = [api EXCEPT !.tries1 = @ + 1, !.pc = "step2"]
         ELSE IF api.attempt >= MAXRETRY
           THEN api' = [api EXCEPT !.tries1 = @ + 1, !.failed = 1, !.raised = TRUE,
                                   !.pc = "done"]
           ELSE api' = [api EXCEPT !.tries1 = @ + 1, !.pc = "sleep"]
  /\ UNCHANGED << now, token_time, call, restv >>

(* time.sleep(20), then the next pass of the loop.  The clock counts        *)
(* minutes: the sleep may or may not take it to the next one.               *)
AuthSleep ==
  /\ api.pc = "sleep"
  /\ \E d \in {0, 1} :
       /\ now + d <= T0 + MaxApiTime
       /\ now' = now + d
  /\ api' = [api EXCEPT !.sleeps = @ + 1, !.attempt = @ + 1, !.pc = "step1"]
  /\ UNCHANGED << token_time, call, restv >>

(* authenticate, step 2: the single POST to /oauth/accesstoken.  Status    *)
(* 200 stores the token and the time; another status raises                 *)
(* ConnectionError; an exception of the POST itself is not caught.          *)
AccessToken ==
  /\ api.pc = "step2"
  /\ \E r \in PostOutcomes :
       IF r = "200"
         THEN /\ token_time' = now
              /\ api' = [api EXCEPT !.tries2 = @ + 1,
                            !.pc = IF api.op = "authenticate" THEN "done" ELSE "send"]
         ELSE /\ token_time' = token_time
              /\ api' = [api EXCEPT !.tries2 = @ + 1, !.failed = 2, !.raised = TRUE,
                                    !.pc = "done"]
  /\ UNCHANGED << now, call, restv >>

(* _post: the vendor call itself, with self._auth_header; a status other   *)
(* than 200 raises ValueError.                                             *)
SendCall ==
  /\ api.pc = "send"
  /\ \E r \in PostOutcomes :
       api' = [api EXCEPT !.sent = TRUE,
                          !.sentAge = IF token_time = None THEN None ELSE now - token_time,
                          !.raised = (r # "200"),
                          !.pc = "done"]
  /\ UNCHANGED << now, token_time, call, restv >>

(* The call returns to its caller (normally or by raising).                *)
ApiReturn ==
  /\ api.pc = "done"
  /\ api' = ApiIdle
  /\ UNCHANGED << now, token_time, call, restv >>

(* Time passes between two calls.                                          *)
ApiTick ==
  /\ api.pc = "idle"
  /\ now < T0 + MaxApiTime
  /\ now' = now + 1
  /\ UNCHANGED << token_time, api, call, restv >>

(* The API client alone, called again and again while the clock advances.  *)
ApiInit ==
  /\ daemon = FALSE
  /\ dryrun = FALSE
  /\ config = ShortPoll
  /\ lastTs = [w \in Writers |-> [s \in Sensors |-> None]]
  /\ Fresh
  /\ call = NoCall

ApiNext ==
  \/ ApiCall
  \/ EnsureAuth
  \/ AuthorizeAttempt
  \/ AuthSleep
  \/ AccessToken
  \/ SendCall
  \/ ApiReturn
  \/ ApiTick

ApiSpec == ApiInit /\ [][ApiNext]_vars

(* ======================= properties of the program ==================== *)
(* Writers whose write() was invoked in the pool write in progress.        *)
Served == { w \in Writers : pw.calls[w] >= 1 }

(* Writers none of whose write() invocations threw in the pool write.      *)
NeverThrew == { w \in Writers : pw.calls[w] = 0 \/ (pw.calls[w] = 1 /\ pw.ok[w]) }

(* Writers both of whose write attempts threw in the pool write.           *)
Exhausted == { w \in Writers : pw.calls[w] = NumWriteAttempts /\ ~pw.ok[w] }

(* The least element of a non-empty set of timestamps.                     *)
SetMin(S) == CHOOSE x \in S : \A y \in S : x <= y

(* The pairs gap detection queried, and the non-null answers it got.       *)
Queried == { q \in Writers \X Sensors : cyc.qcount[q[1]][q[2]] > 0 }
Answers == { cyc.qans[q[1]][q[2]] : q \in Queried } \ {None}

(* The window of a daemon cycle has been computed.                         *)
WindowComputed == daemon /\ pc = "timelist"

(* C1: in a pool write during which running stayed true, every writer that *)
(* was connected when it began, or whose reconnect succeeded, had          *)
(* write(records) invoked at least once, whatever happened to the others.  *)
C1_EveryUsableWriterServed ==
  (pc = "pool_ret" /\ running) =>
     \A w \in Writers : (pw.conn0[w] \/ pw.reconnOK[w]) => w \in Served

(* A pool write in which the first writer failed both attempts and a later *)
(* writer was still served and succeeded.                                  *)
C1_Witness ==
  /\ pc = "pool_ret" /\ running
  /\ 1 \in Exhausted
  /\ \E w \in Writers : w > 1 /\ pw.ok[w]

(* C2 as stated: a cycle that began with every writer connected and free   *)
(* of failures, in which the first writer's write() threw on exactly two   *)
(* invocations in a row and no other write() threw, ends without raising   *)
(* and with the first writer's failure counter at 1.                       *)
C2_AsStated ==
  (pc = "cycle_ret" /\ running /\ ~dryrun /\ cyc.pattern = "twice"
     /\ cyc.missed = {} /\ ~cyc.badProc)
    => (~raised /\ consecutive_failures[1] = 1)

(* C2, amended: at the end of a pool write during which running stayed     *)
(* true, in which the first writer was connected and both its attempts     *)
(* threw while the second writer was connected and never threw: the call   *)
(* does not raise, the first writer's failure counter is one more than     *)
(* before (1 if it was 0), and the batch was written to the second writer. *)
C2_PoolWriteCountsOneFailure ==
  (pc = "pool_ret" /\ running /\ pw.conn0[1] /\ pw.conn0[2]
     /\ 1 \in Exhausted /\ 2 \in NeverThrew)
    => /\ ~raised
       /\ consecutive_failures[1] = pw.cf0[1] + 1
       /\ pw.calls[2] = 1 /\ pw.ok[2]

(* A pool write in which the first writer, free of failures before, threw  *)
(* twice and the second writer took the non-empty batch at once.           *)
C2_Witness ==
  /\ pc = "pool_ret" /\ running /\ pw.conn0[1] /\ pw.conn0[2]
  /\ 1 \in Exhausted /\ 2 \in NeverThrew
  /\ pw.cf0[1] = 0 /\ consecutive_failures[1] = 1
  /\ records # << >> /\ pw.ok[2]

(* C3: in daemon mode the window is [start, now]; with oldest the minimum  *)
(* of the non-null answers over the queried pairs, start is oldest - 1 h   *)
(* when now - oldest exceeds poll_backlog, else now - poll_backlog; and    *)
(* start is now - poll_backlog when there is no non-null answer.           *)
C3_WindowFromOldestAnswer ==
  WindowComputed =>
    /\ stoptime = now
    /\ starttime =
         IF Answers # {} /\ now - SetMin(Answers) > config.poll_backlog
           THEN SetMin(Answers) - 60
           ELSE now - config.poll_backlog

(* Two writers answered differently and the window starts one hour before  *)
(* the older answer, which the later-queried writer gave.                  *)
C3_Witness ==
  /\ WindowComputed
  /\ \E q1 \in Queried, q2 \in Queried :
       /\ q1[1] < q2[1]
       /\ cyc.qans[q1[1]][q1[2]] # None /\ cyc.qans[q2[1]][q2[2]] # None
       /\ cyc.qans[q2[1]][q2[2]] < cyc.qans[q1[1]][q1[2]]
       /\ starttime = cyc.qans[q2[1]][q2[2]] - 60

C5_AsStated ==
  WindowComputed =>
    /\ starttime <= now - config.poll_backlog
    /\ \A ts \in Answers : starttime <= ts
    /\ starttime >= now - 43200 - 60
    /\ stoptime = now

(* C5, amended: start <= now - poll_backlog, start <= every non-null       *)
(* answer, stop = now, and start >= now - max(poll_backlog, 30 days + 1 h):*)
(* with a poll_backlog above 30 days + 1 h the window reaches back         *)
(* poll_backlog.                                                           *)
C5_WindowBounded ==
  WindowComputed =>
    /\ starttime <= now - config.poll_backlog
    /\ \A ts \in Answers : starttime <= ts
    /\ starttime >= now - Max2(config.poll_backlog, 43200 + 60)
    /\ stoptime = now

(* A backend answered with a point exactly 30 days old and the window      *)
(* starts 30 days and one hour before now.                                 *)
C5_Witness ==
  /\ WindowComputed
  /\ now - 43200 \in Answers
  /\ starttime = now - 43200 - 60

(* The previous cycle left windows not ingested for no other reason than   *)
(* failed fetches.                                                         *)
MissedBefore == hist.missed # {} /\ ~hist.badProc

(* Gap detection queried every writer for every sensor and every query     *)
(* returned what the backend holds.                                        *)
GapDetectionComplete ==
  \A w \in Writers, s \in Sensors :
     cyc.qcount[w][s] = 1 /\ cyc.qans[w][s] = get_last_timestamp(w, s)

(* C6: in daemon mode (not dryrun) the window of the cycle after one that  *)
(* skipped a window starts at or before the start of every skipped         *)
(* window, so it covers the skipped interval again; stated for the cycles  *)
(* whose gap detection left out no writer and had no failing query.        *)
C6_SkippedWindowCoveredAgain ==
  (WindowComputed /\ running /\ ~dryrun /\ MissedBefore /\ GapDetectionComplete) =>
     \A m \in hist.missed : starttime <= m

C8_ReturnedSamplesSubmitted ==
  (pc = "cycle_ret" /\ ~raised /\ running /\ ~dryrun /\ ~cyc.noWriter)
    => cyc.returned \subseteq cyc.submitted

C10_ConnectRaisesIffNoneConnected ==
  pc = "connect_ret" => (raised <=> \A w \in Writers : ~connected[w])

(* _connect_writers returned although one writer failed all its attempts.  *)
C10_Witness ==
  /\ pc = "connect_ret" /\ ~raised
  /\ \E w \in Writers : ~connected[w]
  /\ \E w \in Writers : connected[w]
(* C11: for each window get_samples is called at most MAXRETRY times, and  *)
(* every call after the first follows one RETRYWAIT sleep; when MAXRETRY   *)
(* attempts have failed, daemon mode has not raised and has moved on to    *)
(* the next window (the failed one is left out), while one-shot mode has   *)
(* raised out of the cycle.                                                *)
C11_FetchRetriedThenSkippedOrRaised ==
  /\ cyc.fetches <= MAXRETRY
  /\ pc = "fetch" => (cyc.fetches = retrycount /\ cyc.waits = cyc.fetches)
  /\ retrycount = MAXRETRY =>
        IF daemon
          THEN /\ ~raised
               /\ pc \in {"iter", "cycle_ret"}
               /\ iteration >= 2
               /\ timelist[iteration - 1][1] \in cyc.missed
          ELSE raised /\ pc = "cycle_ret"

(* The first window of a daemon cycle was given up after MAXRETRY fetches  *)
(* and the second window is about to be fetched.                           *)
C11_Witness ==
  /\ daemon /\ pc = "fetch" /\ iteration = 2 /\ cyc.fetches = 0
  /\ timelist[1][1] \in cyc.missed

(* C12: in daemon mode the failure counter of run() never exceeds 50 and,  *)
(* between cycles, equals the number of cycles that failed in a row since  *)
(* the last one that returned (0 after a successful cycle, one more after  *)
(* each failed one); when it is 50 the loop has ended with no further      *)
(* sleep or cycle; and the loop ends with running still true only then.    *)
C12_LoopEndsAtFiftyFailures ==
  daemon =>
    /\ run_failures <= max_consecutive_failures
    /\ pc \in {"sleep", "tick", "loop", "close", "stopped"}
          => run_failures = cycle - hist.lastOk
    /\ run_failures = max_consecutive_failures => pc \in {"close", "stopped"}
    /\ (pc \in {"close", "stopped"} /\ running)
          => run_failures = max_consecutive_failures

(* The daemon has stopped, unsignalled, after a successful cycle followed  *)
(* by 50 failed ones.                                                      *)
C12_Witness ==
  /\ daemon /\ pc = "stopped" /\ running
  /\ hist.lastOk >= 1
  /\ cycle - hist.lastOk = max_consecutive_failures

(* C13: when the daemon has stopped because 50 cycles in a row failed, the *)
(* exit status is not 0.                                                   *)
C13_NonZeroOnRepeatedFailure ==
  (daemon /\ pc = "stopped" /\ run_failures = max_consecutive_failures)
    => ExitStatus # 0

(* C17: in a sleep of the run loop, at most one tick ends after running    *)
(* became false, and that tick had begun before: no time.sleep(1) is       *)
(* entered once running is false.                                          *)
C17_SleepReturnsWithinOneTick ==
  /\ sd.late <= 1
  /\ (pc = "tick" /\ ~running) => sd.late = 0

(* running became false during a tick; the tick has ended and the sleep is *)
(* about to return with more than one tick of the interval left.           *)
C17_Witness ==
  /\ pc = "sleep" /\ ~running /\ sd.late = 1
  /\ sleep_i + 1 < config.interval

(* C18: every cycle of the daemon begins with WATCHDOG=1, and at most 60   *)
(* ticks have passed since the sleep began or WATCHDOG=1 was last sent,    *)
(* up to and including the notification of the next cycle.                 *)
C18_WatchdogEveryCycleAndMinute ==
  /\ sd.since <= WatchdogPeriod
  /\ (daemon /\ cycle >= 1) => sd.wd = cycle
  /\ (daemon /\ pc = "auth") => sd.since = 0

(* 60 ticks after the first WATCHDOG=1 of a sleep the second one is due.   *)
C18_Witness ==
  /\ daemon /\ pc = "sleep" /\ running
  /\ sleep_i = 2 * WatchdogPeriod /\ sd.since = WatchdogPeriod

(* C14 as stated: whenever the daemon has ended after SIGTERM/SIGINT was   *)
(* delivered, at whatever point, its exit status is 0.                     *)
C14_AsStated ==
  (daemon /\ ~running /\ ExitStatus # None) => ExitStatus = 0

(* C14, amended: once running is false it stays false and the daemon       *)
(* starts no new cycle; after the initial connect has returned the daemon  *)
(* never ends with a non-zero status; and after the signal the daemon      *)
(* eventually has closed its writers and returned with status 0, or, when  *)
(* the signal came during the initial connect and that connect failed for  *)
(* every writer, has ended with status 1 before any cycle.                 *)
C14_SignalStopsDaemon ==
  /\ [][~running => ~running']_vars
  /\ [][(daemon /\ ~running) => cycle' = cycle]_vars
  /\ [][(daemon /\ pc \notin {"connect", "connect_ret"}) => pc' # "fatal"]_vars
  /\ (daemon /\ ~running) ~>
        \/ ExitStatus = 0
        \/ ExitStatus = 1 /\ cycle = 0 /\ \A w \in Writers : ~connected[w]

(* The daemon has returned with status 0 after a signal that found it in   *)
(* its second cycle or in the sleep before it.                             *)
C14_Witness ==
  /\ daemon /\ ~running /\ ExitStatus = 0
  /\ cycle = MaxCycles /\ run_failures < cycle

(* C15: when SIGTERM/SIGINT arrived while a window was being processed,    *)
(* the records built from the window's samples are still written: every    *)
(* writer that was connected when the window's pool write began has had    *)
(* write(records) invoked by the time the pool write returns.              *)
C15_WindowInProgressWritten ==
  (daemon /\ pc = "pool_ret" /\ ret = "window" /\ ~running /\ records # << >>)
    => \A w \in Writers : pw.conn0[w] => pw.calls[w] >= 1

(* C16: once the check at the head of the window loop has found running    *)
(* false, the cycle is at its return and has not raised: it sends no       *)
(* further samples request and invokes no further write().                 *)
C16_AbortBetweenWindows ==
  cyc.aborted => (pc = "cycle_ret" /\ ~raised)

(* The check found running false after the first window and before the     *)
(* last one.                                                               *)
C16_Witness ==
  /\ cyc.aborted /\ pc = "cycle_ret"
  /\ iteration >= 2 /\ iteration <= Len(timelist)

(* C19: in daemon mode READY=1 is sent at most once; when it has just been *)
(* sent some writer is connected; it has been sent before the first cycle  *)
(* begins (so before that cycle's WATCHDOG=1 and before any vendor or      *)
(* write call); and it is never sent when the initial connect failed for   *)
(* every writer.                                                           *)
C19_ReadyOnceAfterConnect ==
  daemon =>
    /\ sd.ready <= 1
    /\ (sd.ready = 1 /\ pc = "loop" /\ cycle = 0) => \E w \in Writers : connected[w]
    /\ (cycle >= 1 \/ sd.wd >= 1) => sd.ready = 1
    /\ pc \in {"connect", "connect_ret", "fatal"} => sd.ready = 0

(* READY=1 has been sent, no cycle has begun, and one writer failed all    *)
(* its attempts of the initial connect.                                    *)
C19_Witness ==
  /\ daemon /\ sd.ready = 1 /\ pc = "loop" /\ cycle = 0
  /\ \E w \in Writers : ~connected[w]

(* C20: a cycle that began with a token at most 3300 s (55 minutes) old    *)
(* sends no OAuth login.                                                   *)
C20_NoLoginWithFreshToken ==
  (cyc.token0 # None /\ now - cyc.token0 <= TokenMaxAge) => cyc.logins = 0

(* C21: a vendor call is posted only by _post, with a token that exists   *)
(* and is at most 55 minutes old; when the check before the call finds no  *)
(* token or an older one, authenticate runs first, and a call whose        *)
(* authenticate raised is not posted.                                      *)
C21_CallOnlyWithFreshToken ==
  /\ api.sent =>
       /\ api.op \in PostOps
       /\ token_time # None /\ api.sentAge # None /\ api.sentAge <= TokenMaxAge
       /\ IF api.authRan
            THEN api.stale0 /\ api.failed = 0 /\ api.tries2 = 1
            ELSE api.age0 # None /\ api.age0 <= TokenMaxAge
  /\ (api.op \in PostOps /\ api.pc \in {"step1", "sleep", "step2"}) => api.stale0
  /\ api.failed # 0 => ~api.sent /\ api.raised

(* A vendor call posted after its check found a token older than 55        *)
(* minutes and authenticate replaced it.                                   *)
C21_Witness ==
  /\ api.sent /\ api.authRan
  /\ api.age0 # None /\ api.age0 > TokenMaxAge
  /\ api.sentAge = 0

(* C22 as stated: authenticate raises at a step only after MAXRETRY posts  *)
(* of that step, with a 20 s sleep between two posts.                      *)
C22_EachStepTriedThreeTimes ==
  /\ api.failed = 1 => api.tries1 = MAXRETRY /\ api.sleeps = MAXRETRY - 1
  /\ api.failed = 2 => api.tries2 = MAXRETRY

(* The positions of the worker inside _collect_cycle.                      *)
CyclePcs == {"auth", "sensors", "voltage", "pool", "attempt", "pool_ret", "window",
             "gap", "timelist", "iter", "fetch"}

(* C23: in daemon mode an error raised by authentication, the sensor       *)
(* listing, record building or window computation leaves _collect_cycle    *)
(* and is caught by run(): the failure counter grows by exactly one and    *)
(* the daemon sleeps, or leaves the loop when the counter has reached 50;  *)
(* once the initial connect has returned, no step ends the daemon with an  *)
(* uncaught exception.                                                     *)
C23_CycleFailureCounted ==
  [][ /\ (cyc'.cause # cyc.cause /\ cyc'.cause # "none") =>
            (pc \in CyclePcs /\ pc' = "cycle_ret" /\ raised')
      /\ (daemon /\ pc = "cycle_ret" /\ pc' # "cycle_ret" /\ raised) =>
            /\ run_failures' = run_failures + 1
            /\ pc' = IF run_failures' >= max_consecutive_failures
                       THEN "close" ELSE "sleep"
      /\ (daemon /\ pc \notin {"connect", "connect_ret"}) => pc' # "fatal" ]_vars

(* A daemon asleep after its second cycle in a row failed in the window    *)
(* computation.                                                            *)
C23_Witness ==
  /\ daemon /\ pc = "sleep"
  /\ run_failures = 2 /\ cycle = 2
  /\ hist.parseFailed = 1

(* C24 as stated: whenever a samples request is about to be sent or a      *)
(* sample batch is with the writers, the cycle's voltage batch has been    *)
(* submitted to the writers.                                               *)
C24_AsStated ==
  (pc = "fetch" \/ ret = "window") => cyc.voltage

(* C24: without dryrun, the voltage batch has been passed to _safe_write,  *)
(* and that call has returned, before the first samples request is sent    *)
(* and before any sample batch is passed to _safe_write; with dryrun the   *)
(* voltage batch is never passed to the writers.                           *)
C24_VoltageBatchFirst ==
  IF dryrun
    THEN ~cyc.voltage /\ ret = "none"
    ELSE /\ (pc = "fetch" \/ ret = "window" \/ cyc.returned # {}) => cyc.voltage
         /\ pc = "fetch" => ret = "none"

(* A sample batch being written after the voltage batch of the same cycle. *)
C24_Witness ==
  /\ ~dryrun /\ pc = "attempt" /\ ret = "window"
  /\ records # << >>
  /\ cyc.voltage

(* C27 as stated: once parse_backlog has raised on a malformed backlog     *)
(* string, the program only terminates: no further cycle is started.       *)
C27_MalformedBacklogFatal ==
  hist.parseFailed # 0 =>
     /\ cycle = hist.parseFailed
     /\ pc \in {"cycle_ret", "close", "fatal"}

(* C30: with dryrun no step enters _safe_write, so no writer.write is      *)
(* invoked, and no step of a cycle changes a writer's connected flag or    *)
(* failure counter, or what a backend holds.                               *)
C30_DryRunWritesNothing ==
  [][ dryrun =>
        /\ pc' \notin {"pool", "attempt", "pool_ret"}
        /\ pw' = PwIdle
        /\ pc \in CyclePcs =>
              /\ connected' = connected
              /\ consecutive_failures' = consecutive_failures
              /\ lastTs' = lastTs ]_vars

(* A dryrun cycle that fetched samples and returned while a writer that    *)
(* never connected is still disconnected.                                  *)
C30_Witness ==
  /\ dryrun /\ pc = "cycle_ret" /\ ~raised
  /\ cyc.returned # {}
  /\ \E w \in Writers : ~connected[w]

(* C25: for start <= stop and a positive step, build_timelist returns a    *)
(* non-empty list of windows; the first window starts at start, each later *)
(* window starts 30 minutes before the end of the one before it, and every *)
(* minute from start to stop lies in some window.                          *)
C25_TimelistCoversInterval ==
  (/\ call.fn = "build_timelist" /\ call.done
   /\ call.arg.starttime <= call.arg.stoptime /\ call.arg.timesteps > 0) =>
     LET tl == call.out
     IN /\ Len(tl) >= 1
        /\ tl[1][1] = call.arg.starttime
        /\ \A i \in 2..Len(tl) : tl[i][1] = tl[i - 1][2] - OverlapMinutes
        /\ \A t \in call.arg.starttime..call.arg.stoptime :
              \E i \in 1..Len(tl) : tl[i][1] <= t /\ t <= tl[i][2]

(* An interval cut into several windows by a step shorter than the         *)
(* overlap.                                                                *)
C25_Witness ==
  /\ call.fn = "build_timelist" /\ call.done
  /\ call.arg.timesteps < OverlapMinutes
  /\ call.arg.stoptime = call.arg.starttime + MaxSpan
  /\ Len(call.out) > 3

(* C26 as stated: one day in steps of 720 minutes gives [0:00, 12:00],     *)
(* [11:30, 23:30] and [23:00, 11:00 of the next day].                      *)
C26_DayInTwelveHourSteps ==
  (/\ call.fn = "build_timelist" /\ call.done
   /\ call.arg.stoptime = call.arg.starttime + 60 * 24
   /\ call.arg.timesteps = 720) =>
     LET a == call.arg.starttime
     IN call.out = << << a, a + 720 >>,
                      << a + 690, a + 1410 >>,
                      << a + 1380, a + 2100 >> >>

(* C28 as stated: process_samples raises no error on a batch with partial  *)
(* samples and emits one record per sample, each carrying the fields that  *)
(* its sample has.                                                         *)
C28_PartialSamplesTolerated ==
  (call.fn = "process_samples" /\ call.done) =>
     /\ ~call.out.raised
     /\ Len(call.out.records) = Len(call.arg)
     /\ \A i \in DOMAIN call.out.records :
           /\ call.out.records[i].sid = call.arg[i].sid
           /\ call.out.records[i].temperature = call.arg[i].temperature
           /\ ~call.out.records[i].stale

(* C29 as stated: for an identifier that is a number, the sensor_id tag    *)
(* stored for a record, and the value the gap query filters on, are the    *)
(* vendor's identifier unchanged.                                          *)
C29_TagIsVendorIdentifier ==
  (call.fn = "sensor_id" /\ call.done /\ ~call.out.raised) =>
     /\ call.out.tag = call.arg
     /\ call.out.query = call.arg

(* Writers the pool write in progress has finished with.                   *)
PoolDone == { w \in Writers : pc \in {"pool", "attempt", "pool_ret"} /\ w < wi }

(* Writers left out of the pool write because their reconnect failed.      *)
ReconnectFailed == { w \in PoolDone : ~pw.conn0[w] /\ ~pw.reconnOK[w] }

(* C31: in one pool write a writer's write() is invoked at most twice, the *)
(* second time only after the first threw; its failure counter is 0 after  *)
(* an attempt succeeded, one more than before after both threw, and as     *)
(* before when its only reconnect failed; a counter of 3 or more after     *)
(* both threw leaves the writer marked disconnected.                       *)
C31_TwoAttemptsOneCount ==
  /\ \A w \in Writers : pw.calls[w] <= NumWriteAttempts
  /\ pc = "attempt" => (pw.calls[wi] = attempt - 1 /\ ~pw.ok[wi])
  /\ \A w \in PoolDone :
       /\ pw.ok[w] => consecutive_failures[w] = 0
       /\ w \in Exhausted =>
            /\ consecutive_failures[w] = pw.cf0[w] + 1
            /\ consecutive_failures[w] >= ReconnectThreshold => ~connected[w]
       /\ w \in ReconnectFailed =>
            /\ pw.calls[w] = 0
            /\ consecutive_failures[w] = pw.cf0[w]

(* A pool write in which one writer threw twice for the third batch in a   *)
(* row and was marked disconnected, after the other writer had been left   *)
(* out with its counter as it was because its reconnect failed.            *)
C31_Witness ==
  /\ pc = "pool_ret" /\ running
  /\ \E w \in Exhausted, v \in ReconnectFailed :
       /\ pw.cf0[w] = ReconnectThreshold - 1
       /\ consecutive_failures[w] = ReconnectThreshold
       /\ pw.conn0[w] /\ ~connected[w]
       /\ consecutive_failures[v] = pw.cf0[v]

(* C33: at the end of a pool write during which running stayed true, a     *)
(* writer whose failure counter is 3 or more is marked disconnected, and   *)
(* no failure counter is negative.                                         *)
C33_ThreeFailuresMeansDisconnected ==
  (pc = "pool_ret" /\ running) =>
     \A w \in Writers :
        /\ consecutive_failures[w] >= ReconnectThreshold => ~connected[w]
        /\ consecutive_failures[w] >= 0

(* A pool write in which a writer marked disconnected earlier reconnected, *)
(* threw twice again and was marked disconnected with a counter above 3.   *)
C33_Witness ==
  /\ pc = "pool_ret" /\ running
  /\ \E w \in Exhausted :
       /\ pw.cf0[w] >= ReconnectThreshold /\ pw.reconnOK[w]
       /\ consecutive_failures[w] > ReconnectThreshold
       /\ ~connected[w]

(* C38: in daemon mode neither a skipped window nor a failed pool write    *)
(* raises out of the cycle; a cycle that reaches the end of its window     *)
(* loop sets the run loop's failure counter to 0 and the daemon sleeps,    *)
(* whatever was skipped or failed to be written.                           *)
C38_FetchAndWriteFailuresNotCounted ==
  [][ /\ (daemon /\ pc = "cycle_ret" /\ raised) => cyc.cause # "none"
      /\ (daemon /\ pc = "cycle_ret" /\ pc' # "cycle_ret" /\ cyc.cause = "none") =>
            /\ run_failures' = 0
            /\ pc' = "sleep" ]_vars

(* The end of a daemon cycle that follows a failed one: every window was   *)
(* skipped after its retries and the voltage batch, the only one written,  *)
(* failed on both writers.                                                 *)
C38_Witness ==
  /\ daemon /\ ~dryrun /\ pc = "cycle_ret" /\ ~raised
  /\ run_failures > 0
  /\ cyc.voltage /\ ~cyc.aborted
  /\ timelist # << >>
  /\ \A i \in DOMAIN timelist : timelist[i][1] \in cyc.missed
  /\ \A w \in Writers : consecutive_failures[w] > 0 /\ lastTs[w] = [s \in Sensors |-> None]

(* C37: once running is false, a window that has already failed a fetch    *)
(* and waits to retry it sends no further samples request.                 *)
C37_NoRetryAfterSignal ==
  [][ (~running /\ pc = "fetch" /\ cyc.waits >= 1) =>
         cyc'.fetches <= cyc.fetches ]_vars

(* The initial connect has returned: run() went on to READY=1, run_once()  *)
(* to its cycle.                                                           *)
ConnectSucceeded == IF daemon THEN sd.ready >= 1 ELSE cycle >= 1

(* C39 as stated: once the initial connect has succeeded, when run() or    *)
(* run_once() is left close() has been invoked on every writer and every   *)
(* writer's connected flag is false.                                       *)
C39_AsStated ==
  (pc \in {"stopped", "fatal"} /\ ConnectSucceeded) =>
     /\ hist.closed = Writers
     /\ \A w \in Writers : ~connected[w]

(* C39: once the initial connect has succeeded, when run() or run_once()   *)
(* is left, by a signal, by 50 failures, by the cycle's return or by its   *)
(* error, close() has been invoked on every writer, also when the close()  *)
(* of another writer raised; the connected flag of every writer whose      *)
(* close() returned is false.                                              *)
C39_EveryWriterClosedOnExit ==
  (pc \in {"stopped", "fatal"} /\ ConnectSucceeded) =>
     /\ hist.closed = Writers
     /\ \A w \in Writers \ hist.closeThrew : ~connected[w]

(* A one-shot run left by the cycle's error: the first writer's close()    *)
(* raised and the second writer, connected until then, was closed.         *)
C39_Witness ==
  /\ pc = "fatal" /\ ~daemon /\ ConnectSucceeded
  /\ hist.closeThrew = {1}
  /\ hist.closed = Writers
  /\ connected[1] /\ ~connected[2]
  /\ raised

(* C32: in one cycle at most one reconnect is attempted for a writer that  *)
(* is marked disconnected, and none after the cycle itself marked it.      *)
C32_ReconnectOncePerCycle ==
  \A w \in Writers :
     /\ cyc.reconn[w] <= 1
     /\ cyc.markAt[w] # None => cyc.reconn[w] = cyc.markAt[w]

(* C35: in daemon mode, when the previous cycle's batch of a window threw   *)
(* on both attempts for a writer that has since been written successfully  *)
(* (it is connected and free of failures), the window of this cycle starts *)
(* at or before the end of that window, so that it covers at least the     *)
(* last instant of the failed interval; stated for the cycles whose gap    *)
(* detection queried every writer for every sensor without a failing query *)
(* and that follow a cycle which skipped no window.                        *)
C35_FailedBatchCoveredAgain ==
  (WindowComputed /\ running /\ GapDetectionComplete /\ hist.missed = {}) =>
     \A f \in hist.wfail :
        (connected[f[1]] /\ consecutive_failures[f[1]] = 0) => starttime <= f[2]

(* C36: when process_samples returns the records of a batch, what it       *)
(* yields for each sample is what it yields for that sample in the batch   *)
(* without the samples preceding it: the same record, with derived fields  *)
(* computed from the sample's own humidity and temperature.                *)
C36_RecordDependsOnOwnSample ==
  (call.fn = "process_samples" /\ call.done /\ ~call.out.raised) =>
     \A i \in DOMAIN call.arg :
        SampleOutcome(call.arg, i) = SampleOutcome(<< call.arg[i] >>, 1)

(* C34: for every writer, the measurement gap detection queries on it is   *)
(* the measurement the cycle's records are written to it under, whatever   *)
(* measurement names the writers are configured with.                      *)
C34_QueryNameIsWrittenName ==
  (call.fn = "measurement_name" /\ call.done) =>
     \A w \in Writers : call.out.queried[w] = call.out.written[w]
====
